---- MODULE Spec2Model ----
(***************************************************************************)
(* Balizas-v16-MVP: the geocoding resolver (src/geocoding.py) and the      *)
(* record extractor (src/scraper.py) as state machines.                    *)
(*                                                                         *)
(* Strings are sequences of tokens (a word or a single character), so the  *)
(* f-string formatting, str.replace, str.split and str.strip of the source *)
(* are computed on them.  Python's None is the empty sequence <<>> where   *)
(* the source has an Optional value; a tuple (lat, lon) is <<lat, lon>>.   *)
(* Time is counted in ticks, TicksPerSecond of them to a second.           *)
(***************************************************************************)
EXTENDS Integers, Sequences, FiniteSets, TLC

\* ------------------------------------------------------------------ bounds
TicksPerSecond == 2
\* calls of geocodificar_baliza in one run
MaxCalls == 2
\* HTTP calls that fail (transport error or malformed payload) in one run
MaxErrors == 1

\* ------------------------------------------------------- program constants
\* the interval of _rate_limit, in seconds (1.0)
MinInterval == 1
\* _last_request_time before the first request
InitialLastRequestTime == 0

Threads == {1, 2}

\* ---------------------------------------------------------------- strings
None == <<>>

Truthy(s) == s # <<>>

RECURSIVE Replace(_, _, _)
\* str.replace(old, new) for single-character old and new
Replace(s, old, new) ==
    IF s = <<>> THEN <<>>
    ELSE <<(IF Head(s) = old THEN new ELSE Head(s))>> \o Replace(Tail(s), old, new)

RECURSIVE SplitFirst(_, _)
\* str.split(sep)[0]: the text before the first sep
SplitFirst(s, sep) ==
    IF s = <<>> \/ Head(s) = sep THEN <<>>
    ELSE <<Head(s)>> \o SplitFirst(Tail(s), sep)

\* the tokens str.strip() and \\s take for whitespace
Whitespace == {" ", "\n"}

RECURSIVE LStrip(_)
LStrip(s) == IF s # <<>> /\ Head(s) \in Whitespace THEN LStrip(Tail(s)) ELSE s

RECURSIVE RStrip(_)
RStrip(s) ==
    IF s # <<>> /\ s[Len(s)] \in Whitespace THEN RStrip(SubSeq(s, 1, Len(s) - 1)) ELSE s

\* str.strip()
Strip(s) == RStrip(LStrip(s))

\* ------------------------------------------------------- resolver inputs
\* the argument values a caller passes to geocodificar_baliza
Carreteras == {<<>>, <<"A-1">>}
Pks == {<<>>, <<"23", ",", "5">>}
Provincias == {<<>>, <<"MADRID">>}
Poblaciones == {<<>>, <<"OUTEIRO", " ", "(", "O", ")">>, <<"(", "O", ")">>}

\* commas to dots and dots to commas, where the source turns commas to dots
NormalizarPk_canje(pk) ==
    [i \in 1..Len(pk) |-> IF pk[i] = "," THEN "." ELSE IF pk[i] = "." THEN "," ELSE pk[i]]

\* pk.replace(',', '.') if pk else ''
NormalizarPk(pk) == IF Truthy(pk) THEN Replace(pk, ",", ".") ELSE <<>>

\* poblacion.split('(')[0].strip() if poblacion else ''
LimpiarPoblacion(poblacion) ==
    IF Truthy(poblacion) THEN Strip(SplitFirst(poblacion, "(")) ELSE <<>>

\* the (carretera, pk, provincia, poblacion) of one record
AllArgs ==
    {[carretera |-> c, pk |-> k, provincia |-> p, poblacion |-> b] :
        c \in Carreteras, k \in Pks, p \in Provincias, b \in Poblaciones}

\* what geocodificar_baliza makes of its arguments before it builds any query
Normalized(a) ==
    [carretera |-> a.carretera, pk |-> NormalizarPk(a.pk), provincia |-> a.provincia,
     poblacion |-> LimpiarPoblacion(a.poblacion)]

\* the tables of records a run geocodes: one record, or two records that differ
\* as scraped and are the same once normalized
Tables ==
    {T \in SUBSET AllArgs :
        \/ Cardinality(T) = 1
        \/ Cardinality(T) = 2 /\ \A a, b \in T : Normalized(a) = Normalized(b)}

Levels == 1..7

\* the `if` that guards each strategy of geocodificar_baliza
Applicable(l, carretera, pk_n, pob_l) ==
    CASE l = 1 -> Truthy(carretera) /\ Truthy(pk_n) /\ Truthy(pob_l)
      [] l = 2 -> Truthy(pob_l) /\ Truthy(carretera)
      [] l = 3 -> Truthy(carretera) /\ Truthy(pk_n)
      [] l = 4 -> Truthy(carretera) /\ Truthy(pk_n)
      [] l = 5 -> Truthy(pob_l)
      [] l = 6 -> Truthy(carretera)
      [] l = 7 -> TRUE

Sep == <<",", " ">>
Espana == <<"España">>

\* the f-string of each strategy
Query(l, carretera, pk_n, provincia, pob_l) ==
    CASE l = 1 -> carretera \o <<" ", "km", " ">> \o pk_n \o Sep \o pob_l
                    \o Sep \o provincia \o Sep \o Espana
      [] l = 2 -> pob_l \o Sep \o carretera \o Sep \o provincia \o Sep \o Espana
      [] l = 3 -> carretera \o <<" ", "kilómetro", " ">> \o pk_n \o Sep
                    \o provincia \o Sep \o Espana
      [] l = 4 -> carretera \o <<" ", "km", " ">> \o pk_n \o Sep \o Espana
      [] l = 5 -> pob_l \o Sep \o provincia \o Sep \o Espana
      [] l = 6 -> <<"carretera", " ">> \o carretera \o Sep \o provincia
                    \o Sep \o Espana
      [] l = 7 -> provincia \o Sep \o Espana

\* precision labels with strategies 3 and 4 taken for one another
Precision_swapped(l) ==
    CASE l = 1 -> "muy_alta"
      [] l = 2 -> "alta"
      [] l = 3 -> "media"
      [] l = 4 -> "alta"
      [] l = 5 -> "media"
      [] l = 6 -> "baja"
      [] l = 7 -> "estimada"

\* the precision= of each strategy's Coordenadas
Precision(l) ==
    CASE l = 1 -> "muy_alta"
      [] l = 2 -> "alta"
      [] l = 3 -> "alta"
      [] l = 4 -> "media"
      [] l = 5 -> "media"
      [] l = 6 -> "baja"
      [] l = 7 -> "estimada"

\* one label for every strategy
Fuente_generic(l, q) == <<"Nominatim: ">> \o q

\* the fuente= of each strategy's Coordenadas
Fuente(l, q) ==
    CASE l = 5 -> <<"Nominatim (población): ">> \o q
      [] l = 7 -> <<"Nominatim (provincia): ">> \o q
      [] OTHER -> <<"Nominatim: ">> \o q

\* the strategies run top to bottom: the first one after l whose `if` holds,
\* 8 when the function falls through to `return None`
NextLevel(l, carretera, pk_n, pob_l) ==
    IF \E k \in Levels : k > l /\ Applicable(k, carretera, pk_n, pob_l)
    THEN CHOOSE k \in Levels :
            /\ k > l
            /\ Applicable(k, carretera, pk_n, pob_l)
            /\ \A j \in Levels : (j > l /\ j < k) => ~Applicable(j, carretera, pk_n, pob_l)
    ELSE 8

\* Coordenadas(latitud=coords[0], longitud=coords[1], precision=..., fuente=...)
Coordenadas(c, l, q) ==
    [latitud |-> c[1], longitud |-> c[2], precision |-> Precision(l), fuente |-> Fuente(l, q)]

\* ------------------------------------------------------ geocoding service
Digits == {"0", "1", "2", "3", "4", "5", "6", "7", "8", "9"}

DigitVal(d) ==
    CASE d = "0" -> 0 [] d = "1" -> 1 [] d = "2" -> 2 [] d = "3" -> 3 [] d = "4" -> 4
      [] d = "5" -> 5 [] d = "6" -> 6 [] d = "7" -> 7 [] d = "8" -> 8 [] d = "9" -> 9

RECURSIVE NatVal(_)
NatVal(s) == IF s = <<>> THEN 0 ELSE 10 * NatVal(SubSeq(s, 1, Len(s) - 1)) + DigitVal(s[Len(s)])

AllDigits(s) == s # <<>> /\ \A i \in 1..Len(s) : s[i] \in Digits

\* float(text) accepts the text (whole degrees only: a sign and digits)
IsFloat(s) ==
    \/ AllDigits(s)
    \/ s # <<>> /\ Head(s) = "-" /\ AllDigits(Tail(s))

\* float(text)
ToFloat(s) == IF Head(s) = "-" THEN 0 - NatVal(Tail(s)) ELSE NatVal(s)

\* the JSON arrays the service answers with: each match has 'lat' and 'lon' strings
Match1 == [lat |-> <<"4", "0">>, lon |-> <<"-", "3">>]
Match2 == [lat |-> <<"0">>, lon |-> <<"0">>]
BadMatch == [lat |-> <<"x">>, lon |-> <<"-", "3">>]
Payloads == {<<>>, <<Match1, Match2>>, <<BadMatch>>}

\* what one HTTP call does: requests.get or raise_for_status raises, or a payload arrives
Responses ==
    {[transport |-> TRUE, results |-> <<>>]} \cup {[transport |-> FALSE, results |-> p] : p \in Payloads}

\* a try block that leaves `_geocode_cache[query] = None` out
TryBody_nostore(resp) ==
    IF resp.transport
    THEN [exc |-> "RequestException", store |-> FALSE, value |-> None]
    ELSE IF Truthy(resp.results)
    THEN IF IsFloat(resp.results[1].lat) /\ IsFloat(resp.results[1].lon)
         THEN [exc |-> "none", store |-> TRUE,
               value |-> <<ToFloat(resp.results[1].lat), ToFloat(resp.results[1].lon)>>]
         ELSE [exc |-> "ValueError", store |-> FALSE, value |-> None]
    ELSE [exc |-> "none", store |-> FALSE, value |-> None]

\* a try block that reads results[-1] where the source reads results[0]
TryBody_last(resp) ==
    IF resp.transport
    THEN [exc |-> "RequestException", store |-> FALSE, value |-> None]
    ELSE IF Truthy(resp.results)
    THEN IF IsFloat(resp.results[Len(resp.results)].lat) /\ IsFloat(resp.results[Len(resp.results)].lon)
         THEN [exc |-> "none", store |-> TRUE,
               value |-> <<ToFloat(resp.results[Len(resp.results)].lat),
                           ToFloat(resp.results[Len(resp.results)].lon)>>]
         ELSE [exc |-> "ValueError", store |-> FALSE, value |-> None]
    ELSE [exc |-> "none", store |-> TRUE, value |-> None]

\* a try block that stores the no-match marker before the transport error leaves it
TryBody_marker(resp) ==
    IF resp.transport
    THEN [exc |-> "RequestException", store |-> TRUE, value |-> None]
    ELSE IF Truthy(resp.results)
    THEN IF IsFloat(resp.results[1].lat) /\ IsFloat(resp.results[1].lon)
         THEN [exc |-> "none", store |-> TRUE,
               value |-> <<ToFloat(resp.results[1].lat), ToFloat(resp.results[1].lon)>>]
         ELSE [exc |-> "ValueError", store |-> FALSE, value |-> None]
    ELSE [exc |-> "none", store |-> TRUE, value |-> None]

\* the try block of geocodificar_nominatim: the exception it raises ("none": it
\* returns), whether it stores into the cache, and the value stored and returned
TryBody(resp) ==
    IF resp.transport
    THEN [exc |-> "RequestException", store |-> FALSE, value |-> None]
    ELSE IF Truthy(resp.results)
    THEN IF IsFloat(resp.results[1].lat) /\ IsFloat(resp.results[1].lon)
         THEN [exc |-> "none", store |-> TRUE,
               value |-> <<ToFloat(resp.results[1].lat), ToFloat(resp.results[1].lon)>>]
         ELSE [exc |-> "ValueError", store |-> FALSE, value |-> None]
    ELSE [exc |-> "none", store |-> TRUE, value |-> None]

\* `except requests.RequestException` where the source has `except Exception`
Caught_requests(exc) == exc = "RequestException"

\* except Exception
Caught(exc) == TRUE

\* ------------------------------------------------------------------ state
VARIABLES
    balizas,             \* the records at hand: callers geocode records of this table
    serialized,          \* callers hold an external lock around every resolver call
    clock,               \* time.time(), in ticks
    geocode_cache,       \* _geocode_cache: query -> (lat, lon) or None
    last_request_time,   \* _last_request_time
    pc,                  \* where each caller is
    args,                \* the arguments of the caller's geocodificar_baliza call
    level,               \* the strategy the caller is at
    wake,                \* the time the caller's time.sleep ends
    result,              \* what geocodificar_baliza returned: None or <<Coordenadas>>
    attempts,            \* history: the nominatim calls of the current resolver call
    calls,               \* history: the caller and the arguments of every resolver call
    requests,            \* history: every outbound request
    issues,              \* history: when the first, the one before last and the last request went out
    errors,              \* history: the number of HTTP calls that failed
    html,                \* the page parse_incidencias is given: its <tr> rows
    parse_pc,            \* where parse_incidencias is
    fila,                \* the index of the row the loop of parse_incidencias is at
    incidencias,         \* the list parse_incidencias builds and returns
    origen,              \* history: the row each element of incidencias came from
    entrada,             \* the function called on its own and its argument, as it is now
    dada,                \* history: the argument as the caller gave it
    salida,              \* what the calls returned, one after the other
    cache_data,          \* cache['data'] of the API server: the records of the last refresh
    last_update,         \* cache['last_update']: None, or <<the time of the last refresh>>
    app_pc,              \* the loop in progress: of /api/balizas/mapa, of the map script, or none
    activas,             \* the list the loop goes through: positions in cache_data (mapa)
    locales,             \* the records of the map script, its own
    cursor,              \* the position of the loop in its list
    devuelto,            \* history: what the last get_incidencias_con_cache call did
    extraido,            \* history: the records of cache_data and locales as extracted
    exitos,              \* history: an upstream fetch of get_incidencias_con_cache has succeeded
    peticiones           \* history: the number of handler and script runs started

parseVars == <<html, parse_pc, fila, incidencias, origen>>

pureVars == <<entrada, dada, salida>>

appVars == <<cache_data, last_update, app_pc, activas, locales, cursor, devuelto, extraido,
             exitos, peticiones>>

otherVars == <<pureVars, appVars>>

geoVars == <<balizas, serialized, clock, geocode_cache, last_request_time, pc, args, level,
             wake, result, attempts, calls, requests, issues, errors>>

NoArgs == [carretera |-> <<>>, pk |-> <<>>, provincia |-> <<>>, poblacion |-> <<>>]

EmptyCache == [q \in {} |-> None]

\* time.time() when the program starts: more than a second after the epoch
StartTime == InitialLastRequestTime + MinInterval * TicksPerSecond

InitGeo ==
    /\ clock = StartTime
    /\ geocode_cache = EmptyCache
    /\ last_request_time = InitialLastRequestTime
    /\ pc = [t \in Threads |-> "idle"]
    /\ args = [t \in Threads |-> NoArgs]
    /\ level = [t \in Threads |-> 0]
    /\ wake = [t \in Threads |-> 0]
    /\ result = [t \in Threads |-> None]
    /\ attempts = [t \in Threads |-> <<>>]
    /\ calls = <<>>
    /\ requests = <<>>
    /\ issues = [first |-> 0, prev |-> 0, last |-> 0]
    /\ errors = 0

\* the locals of the caller's geocodificar_baliza
PkNormalizado(t) == NormalizarPk(args[t].pk)
PoblacionLimpia(t) == LimpiarPoblacion(args[t].poblacion)
QueryOf(t) == Query(level[t], args[t].carretera, PkNormalizado(t), args[t].provincia, PoblacionLimpia(t))
LevelAfter(t) == NextLevel(level[t], args[t].carretera, PkNormalizado(t), PoblacionLimpia(t))

\* the resolver call the caller is in: the last one it started
CallOf(t) == CHOOSE i \in 1..Len(calls) : calls[i].by = t /\ \A j \in (i + 1)..Len(calls) : calls[j].by # t

\* the request the caller is waiting for: the last one it issued
PendingOf(t) == CHOOSE i \in 1..Len(requests) : requests[i].by = t /\ requests[i].outcome = "pending"

\* `if _geocode_cache.get(query)` where the source has `query in _geocode_cache`
InCache_truthy(q) == q \in DOMAIN geocode_cache /\ Truthy(geocode_cache[q])

\* `query in _geocode_cache`
InCache(q) == q \in DOMAIN geocode_cache

\* geocodificar_baliza after geocodificar_nominatim returned coords at the
\* caller's level: `if coords: return Coordenadas(...)`, else on to the next
\* strategy, or `return None` after the last one
Cascade(t, coords, how) ==
    /\ attempts' = [attempts EXCEPT ![t] =
            Append(@, [level |-> level[t], query |-> QueryOf(t), how |-> how, coords |-> coords])]
    /\ IF Truthy(coords)
       THEN /\ result' = [result EXCEPT ![t] = <<Coordenadas(coords, level[t], QueryOf(t))>>]
            /\ pc' = [pc EXCEPT ![t] = "done"]
            /\ level' = level
       ELSE IF LevelAfter(t) = 8
       THEN /\ result' = [result EXCEPT ![t] = None]
            /\ pc' = [pc EXCEPT ![t] = "done"]
            /\ level' = level
       ELSE /\ result' = result
            /\ pc' = [pc EXCEPT ![t] = "lookup"]
            /\ level' = [level EXCEPT ![t] = LevelAfter(t)]

\* a caller enters geocodificar_baliza and reaches its first strategy
Call(t) ==
    /\ pc[t] = "idle"
    /\ Len(calls) < MaxCalls
    /\ serialized => \A u \in Threads : pc[u] = "idle"
    /\ \A u \in Threads : u < t => \E i \in 1..Len(calls) : calls[i].by = u
    /\ \E a \in balizas :
        /\ args' = [args EXCEPT ![t] = a]
        /\ level' = [level EXCEPT ![t] = NextLevel(0, a.carretera, NormalizarPk(a.pk), LimpiarPoblacion(a.poblacion))]
        /\ calls' = Append(calls, [by |-> t, args |-> a])
    /\ pc' = [pc EXCEPT ![t] = "lookup"]
    /\ attempts' = [attempts EXCEPT ![t] = <<>>]
    /\ result' = [result EXCEPT ![t] = None]
    /\ UNCHANGED <<parseVars, otherVars, balizas, serialized, clock, geocode_cache, last_request_time, wake, requests, issues, errors>>

\* geocodificar_nominatim, the query is in the cache: return the entry
CacheHit(t) ==
    /\ pc[t] = "lookup"
    /\ InCache(QueryOf(t))
    /\ Cascade(t, geocode_cache[QueryOf(t)], "cache")
    /\ UNCHANGED <<parseVars, otherVars, balizas, serialized, clock, geocode_cache, last_request_time, args, wake, calls, requests, issues, errors>>

\* `time.sleep(elapsed)` where the source has `time.sleep(1.0 - elapsed)`
Residual_elapsed(elapsed) ==
    IF elapsed < MinInterval * TicksPerSecond THEN elapsed ELSE 0

\* the residual interval _rate_limit sleeps: 0 when elapsed >= 1.0
Residual(elapsed) ==
    IF elapsed < MinInterval * TicksPerSecond THEN MinInterval * TicksPerSecond - elapsed ELSE 0

\* geocodificar_nominatim, the query is not in the cache: on to _rate_limit(),
\* now = time.time(); elapsed = now - _last_request_time;
\* if elapsed < 1.0: time.sleep(1.0 - elapsed)
CacheMiss(t) ==
    /\ pc[t] = "lookup"
    /\ ~InCache(QueryOf(t))
    /\ LET elapsed == clock - last_request_time IN
        IF Residual(elapsed) > 0
        THEN /\ wake' = [wake EXCEPT ![t] = clock + Residual(elapsed)]
             /\ pc' = [pc EXCEPT ![t] = "sleep"]
        ELSE /\ wake' = wake
             /\ pc' = [pc EXCEPT ![t] = "stamp"]
    /\ UNCHANGED <<parseVars, otherVars, balizas, serialized, clock, geocode_cache, last_request_time, args, level,
                   result, attempts, calls, requests, issues, errors>>

\* time.sleep returns, not before the time asked for
Wake(t) ==
    /\ pc[t] = "sleep"
    /\ clock >= wake[t]
    /\ pc' = [pc EXCEPT ![t] = "stamp"]
    /\ UNCHANGED <<parseVars, otherVars, balizas, serialized, clock, geocode_cache, last_request_time, args, level, wake,
                   result, attempts, calls, requests, issues, errors>>

\* _last_request_time = time.time(), and requests.get sends the query
Send(t) ==
    /\ pc[t] = "stamp"
    /\ last_request_time' = clock
    /\ requests' = Append(requests, [query |-> QueryOf(t), by |-> t, call |-> CallOf(t),
                                     outcome |-> "pending", reply |-> <<>>, cleared |-> FALSE])
    /\ issues' = [first |-> IF requests = <<>> THEN clock ELSE issues.first,
                  prev |-> issues.last, last |-> clock]
    /\ pc' = [pc EXCEPT ![t] = "wait"]
    /\ UNCHANGED <<parseVars, otherVars, balizas, serialized, clock, geocode_cache, args, level, wake,
                   result, attempts, calls, errors>>

\* an insert that drops the entries of the other queries
Store_only(q, value) == [x \in {q} |-> value]

\* an insert that is lost
Store_lost(q, value) == geocode_cache

\* `_geocode_cache[query] = value`
Store(q, value) ==
    [x \in DOMAIN geocode_cache \cup {q} |-> IF x = q THEN value ELSE geocode_cache[x]]

\* the HTTP call ends and geocodificar_nominatim returns (or raises) to the cascade
Response(t) ==
    /\ pc[t] = "wait"
    /\ \E resp \in Responses :
        LET r == TryBody(resp) IN
        IF r.exc = "none"
        THEN /\ geocode_cache' = IF r.store THEN Store(QueryOf(t), r.value) ELSE geocode_cache
             /\ errors' = errors
             /\ requests' = [requests EXCEPT ![PendingOf(t)].outcome =
                                    IF Truthy(r.value) THEN "match" ELSE "nomatch",
                                ![PendingOf(t)].reply = resp.results]
             /\ Cascade(t, r.value, "request")
        ELSE IF Caught(r.exc)
        THEN /\ errors < MaxErrors
             /\ errors' = errors + 1
             /\ geocode_cache' = IF r.store THEN Store(QueryOf(t), r.value) ELSE geocode_cache
             /\ requests' = [requests EXCEPT ![PendingOf(t)].outcome = "error",
                                              ![PendingOf(t)].reply = resp.results]
             /\ Cascade(t, None, "error")
        ELSE /\ errors < MaxErrors
             /\ errors' = errors + 1
             /\ geocode_cache' = IF r.store THEN Store(QueryOf(t), r.value) ELSE geocode_cache
             /\ requests' = [requests EXCEPT ![PendingOf(t)].outcome = "error",
                                              ![PendingOf(t)].reply = resp.results]
             /\ pc' = [pc EXCEPT ![t] = "raised"]
             /\ UNCHANGED <<level, result, attempts>>
    /\ UNCHANGED <<parseVars, otherVars, balizas, serialized, clock, last_request_time, args, wake, calls, issues>>

\* the caller takes the result (or the exception) and leaves the resolver
Return(t) ==
    /\ pc[t] \in {"done", "raised"}
    /\ pc' = [pc EXCEPT ![t] = "idle"]
    /\ args' = [args EXCEPT ![t] = NoArgs]
    /\ level' = [level EXCEPT ![t] = 0]
    /\ wake' = [wake EXCEPT ![t] = 0]
    /\ result' = [result EXCEPT ![t] = None]
    /\ attempts' = [attempts EXCEPT ![t] = <<>>]
    /\ UNCHANGED <<parseVars, otherVars, balizas, serialized, clock, geocode_cache, last_request_time, calls, requests, issues, errors>>

\* limpiar_cache, called between resolver calls (the history marks the
\* requests sent before it)
LimpiarCache ==
    /\ \A u \in Threads : pc[u] = "idle"
    /\ geocode_cache' = EmptyCache
    /\ requests' = [i \in 1..Len(requests) |-> [requests[i] EXCEPT !.cleared = TRUE]]
    /\ UNCHANGED <<parseVars, otherVars, balizas, serialized, clock, last_request_time, pc, args, level, wake, result,
                   attempts, calls, issues, errors>>

\* time passes while every caller is outside the resolver or blocked in it
\* (asleep, or waiting for the HTTP response); the statements between two
\* blocking calls take no time.  The clock is followed until a second has
\* passed since the last request: from then on _rate_limit finds
\* elapsed >= 1.0 and does the same whatever the time is.
Tick ==
    /\ clock - last_request_time < MinInterval * TicksPerSecond
    /\ \A t \in Threads :
        \/ pc[t] = "idle"
        \/ pc[t] = "sleep" /\ clock < wake[t]
        \/ pc[t] = "wait"
    /\ clock' = clock + 1
    /\ UNCHANGED <<parseVars, otherVars, balizas, serialized, geocode_cache, last_request_time, pc, args, level, wake,
                   result, attempts, calls, requests, issues, errors>>

NextGeo ==
    \/ \E t \in Threads : Call(t)
    \/ \E t \in Threads : CacheHit(t)
    \/ \E t \in Threads : CacheMiss(t)
    \/ \E t \in Threads : Wake(t)
    \/ \E t \in Threads : Send(t)
    \/ \E t \in Threads : Response(t)
    \/ \E t \in Threads : Return(t)
    \/ LimpiarCache
    \/ Tick

\* ------------------------------------------------------- the page (HTML)
\* a node of a cell: a text node, or a <span>, <b>, <a> or <img> element with
\* its text and the attributes the extractor reads
TextNode(text) == [tag |-> "text", text |-> text, onclick |-> <<>>, src |-> <<>>, alt |-> <<>>]
SpanNode(text) == [tag |-> "span", text |-> text, onclick |-> <<>>, src |-> <<>>, alt |-> <<>>]
BoldNode(text) == [tag |-> "b", text |-> text, onclick |-> <<>>, src |-> <<>>, alt |-> <<>>]
LinkNode(text, onclick) == [tag |-> "a", text |-> text, onclick |-> onclick, src |-> <<>>, alt |-> <<>>]
ImgNode(src, alt) == [tag |-> "img", text |-> <<>>, onclick |-> <<>>, src |-> src, alt |-> alt]

RECURSIVE GetText(_)
\* element.get_text(): the text of the nodes, in document order
GetText(nodes) == IF nodes = <<>> THEN <<>> ELSE Head(nodes).text \o GetText(Tail(nodes))

RECURSIVE Flatten(_)
\* the nodes of a row: those of its cells, in document order
Flatten(cells) == IF cells = <<>> THEN <<>> ELSE Head(cells) \o Flatten(Tail(cells))

\* element.find(tag): None, or the first node with the tag
Find(nodes, tag) ==
    IF \E i \in 1..Len(nodes) : nodes[i].tag = tag
    THEN <<nodes[CHOOSE i \in 1..Len(nodes) :
                    nodes[i].tag = tag /\ \A j \in 1..(i - 1) : nodes[j].tag # tag]>>
    ELSE <<>>

\* str.upper(), token by token
UpperTok(w) ==
    CASE w = "obstáculo" -> "OBSTÁCULO"
      [] w = "fijo" -> "FIJO"
      [] w = "accidente" -> "ACCIDENTE"
      [] w = "Accidente" -> "ACCIDENTE"
      [] w = "por" -> "POR"
      [] w = "km" -> "KM"
      [] w = "sentido" -> "SENTIDO"
      [] w = "Sentido" -> "SENTIDO"
      [] w = "Madrid" -> "MADRID"
      [] w = "madrid" -> "MADRID"
      [] w = "Lugo" -> "LUGO"
      [] w = "La" -> "LA"
      [] w = "Rioja" -> "RIOJA"
      [] w = "Atlantis" -> "ATLANTIS"
      [] OTHER -> w

Upper(s) == [i \in 1..Len(s) |-> UpperTok(s[i])]

\* `sub in s`
Contains(s, sub) ==
    \E i \in 1..(Len(s) - Len(sub) + 1) : SubSeq(s, i, i + Len(sub) - 1) = sub

RECURSIVE RemoveAll(_, _)
\* s.replace(sub, '') for a non-empty sub
RemoveAll(s, sub) ==
    IF Len(s) < Len(sub) THEN s
    ELSE IF SubSeq(s, 1, Len(sub)) = sub THEN RemoveAll(SubSeq(s, Len(sub) + 1, Len(s)), sub)
    ELSE <<Head(s)>> \o RemoveAll(Tail(s), sub)

RECURSIVE CollapseSpaces(_)
\* re.sub(r'\s+', ' ', s)
CollapseSpaces(s) ==
    IF s = <<>> THEN <<>>
    ELSE IF Head(s) \in Whitespace THEN <<" ">> \o CollapseSpaces(LStrip(s))
    ELSE <<Head(s)>> \o CollapseSpaces(Tail(s))

Drop(s, n) == SubSeq(s, n + 1, Len(s))

\* the positions of s a predicate holds at: the leftmost one, as re.search does
Leftmost(P) == CHOOSE i \in P : \A j \in P : i <= j

\* r'\d{2}/\d{2}/\d{4}' matches at position i
DateAt(s, i) ==
    /\ i + 9 <= Len(s)
    /\ \A k \in {0, 1, 3, 4, 6, 7, 8, 9} : s[i + k] \in Digits
    /\ s[i + 2] = "/"
    /\ s[i + 5] = "/"

\* re.search(r'\d{2}/\d{2}/\d{4}', s): None, or the match's group()
SearchDate(s) ==
    LET P == {i \in 1..Len(s) : DateAt(s, i)} IN
    IF P = {} THEN <<>> ELSE <<SubSeq(s, Leftmost(P), Leftmost(P) + 9)>>

\* the tokens that are not \w
NonWord == Whitespace \cup {",", ".", "/", ":", "(", ")", "-", "=", "'", ".gif", "/img/"}

RECURSIVE TakeWord(_)
\* the longest prefix \w+ matches
TakeWord(s) ==
    IF s = <<>> \/ Head(s) \in NonWord THEN <<>> ELSE <<Head(s)>> \o TakeWord(Tail(s))

RECURSIVE TakeNum(_)
\* the longest prefix [\d.,]+ matches
TakeNum(s) ==
    IF s = <<>> \/ Head(s) \notin Digits \cup {".", ","} THEN <<>>
    ELSE <<Head(s)>> \o TakeNum(Tail(s))

RECURSIVE TakeDigits(_)
\* the longest prefix \d+ matches
TakeDigits(s) ==
    IF s = <<>> \/ Head(s) \notin Digits THEN <<>> ELSE <<Head(s)>> \o TakeDigits(Tail(s))

\* re.search(r'km\s*([\d.,]+)', s, re.IGNORECASE): None, or group(1)
SearchPk(s) ==
    LET P == {i \in 1..Len(s) : UpperTok(s[i]) = "KM" /\ TakeNum(LStrip(Drop(s, i))) # <<>>} IN
    IF P = {} THEN <<>> ELSE <<TakeNum(LStrip(Drop(s, Leftmost(P))))>>

\* re.search(r'sentido\s+(\w+)', s, re.IGNORECASE): None, or group(1)
SearchSentido(s) ==
    LET P == {i \in 1..(Len(s) - 1) :
                /\ UpperTok(s[i]) = "SENTIDO"
                /\ s[i + 1] \in Whitespace
                /\ TakeWord(LStrip(Drop(s, i))) # <<>>} IN
    IF P = {} THEN <<>> ELSE <<TakeWord(LStrip(Drop(s, Leftmost(P))))>>

\* re.search(r'nivel_(\w+)\.gif', src): None, or group(1)
SearchNivel(s) ==
    LET P == {i \in 1..Len(s) :
                /\ s[i] = "nivel_"
                /\ TakeWord(Drop(s, i)) # <<>>
                /\ Drop(s, i + Len(TakeWord(Drop(s, i)))) # <<>>
                /\ Head(Drop(s, i + Len(TakeWord(Drop(s, i))))) = ".gif"} IN
    IF P = {} THEN <<>> ELSE <<TakeWord(Drop(s, Leftmost(P)))>>

\* re.search(r'inciCodigo=(\d+)', onclick): None, or group(1)
SearchCodigo(s) ==
    LET P == {i \in 1..Len(s) : s[i] = "inciCodigo=" /\ TakeDigits(Drop(s, i)) # <<>>} IN
    IF P = {} THEN <<>> ELSE <<TakeDigits(Drop(s, Leftmost(P)))>>

\* re.search(r'/(\d+)$', alt): None, or group(1)
SearchAltId(s) ==
    LET P == {i \in 1..(Len(s) - 1) : s[i] = "/" /\ AllDigits(Drop(s, i))} IN
    IF P = {} THEN <<>> ELSE <<Drop(s, Leftmost(P))>>

\* --------------------------------------------------------- the extractor
\* PROVINCIAS_COMUNIDADES, the entries of the provinces the pages below name
ProvinciasComunidades ==
    [k \in {<<"MADRID">>, <<"LUGO">>, <<"SEVILLA">>, <<"LA", " ", "RIOJA">>} |->
        CASE k = <<"MADRID">> -> <<"COMUNIDAD", " ", "DE", " ", "MADRID">>
          [] k = <<"LUGO">> -> <<"GALICIA">>
          [] k = <<"LA", " ", "RIOJA">> -> <<"LA", " ", "RIOJA">>
          [] k = <<"SEVILLA">> -> <<"ANDALUCÍA">>]

\* a lookup of provincia.upper(), the name left untrimmed
get_comunidad_untrimmed(provincia) ==
    IF Upper(provincia) \in DOMAIN ProvinciasComunidades
    THEN ProvinciasComunidades[Upper(provincia)]
    ELSE <<"DESCONOCIDA">>

\* PROVINCIAS_COMUNIDADES.get(provincia.upper().strip(), 'DESCONOCIDA')
get_comunidad(provincia) ==
    LET provincia_upper == Strip(Upper(provincia)) IN
    IF provincia_upper \in DOMAIN ProvinciasComunidades
    THEN ProvinciasComunidades[provincia_upper]
    ELSE <<"DESCONOCIDA">>

\* the first <a> of the row whose onclick carries inciCodigo=<digits>, else the
\* first <img> whose alt ends in /<digits>, else ""
extract_id(row) ==
    LET nodes == Flatten(row)
        links == {i \in 1..Len(nodes) : nodes[i].tag = "a" /\ SearchCodigo(nodes[i].onclick) # <<>>}
        imgs == {i \in 1..Len(nodes) : nodes[i].tag = "img" /\ SearchAltId(nodes[i].alt) # <<>>}
    IN  IF links # {} THEN SearchCodigo(nodes[Leftmost(links)].onclick)[1]
        ELSE IF imgs # {} THEN SearchAltId(nodes[Leftmost(imgs)].alt)[1]
        ELSE <<>>

\* cell 1 of parse_row: hora_fin and fecha_fin, each None or <<text>>
FinDe(cell_fin) ==
    LET span_fin == Find(cell_fin, "span") IN
    IF span_fin # <<>> /\ Truthy(Strip(span_fin[1].text))
    THEN [hora_fin |-> <<Strip(span_fin[1].text)>>, fecha_fin |-> SearchDate(GetText(cell_fin))]
    ELSE [hora_fin |-> None, fecha_fin |-> None]

\* `activa=fecha_fin is None`
Activa(fecha_fin) == fecha_fin = None

\* the tipo parse_row gives a description
Tipo(descripcion_texto) ==
    LET upper_desc == Upper(descripcion_texto) IN
    IF Contains(upper_desc, <<"OBSTÁCULO", " ", "FIJO">>) /\ Contains(upper_desc, <<"ACCIDENTE">>)
    THEN <<"OBSTÁCULO", " ", "FIJO", " ", "POR", " ", "ACCIDENTE">>
    ELSE <<"OBSTÁCULO", " ", "FIJO">>

\* the sentido parse_row finds: in the text, else in the first <b> of the cell
\* that follows a node naming it
Sentido(cell_desc, descripcion_texto) ==
    LET bolds == {i \in 2..Len(cell_desc) :
                    /\ cell_desc[i].tag = "b"
                    /\ Contains(Upper(cell_desc[i - 1].text), <<"SENTIDO">>)} IN
    IF SearchSentido(descripcion_texto) # <<>> THEN SearchSentido(descripcion_texto)[1]
    ELSE IF bolds # {} THEN Strip(cell_desc[Leftmost(bolds)].text)
    ELSE <<>>

\* parse_row(cells, row_id): the Incidencia of a row of six cells or more
parse_row(cells, row_id) ==
    LET span == Find(cells[1], "span")
        link == Find(cells[1], "a")
        fin == FinDe(cells[2])
        img == Find(cells[3], "img")
        bold == Find(cells[4], "b")
        provincia == IF bold # <<>> THEN Strip(bold[1].text) ELSE <<>>
        full_text == Strip(GetText(cells[4]))
        bold_carr == Find(cells[5], "b")
        descripcion_texto == CollapseSpaces(Strip(GetText(cells[6])))
    IN  [id |-> row_id,
         tipo |-> Tipo(descripcion_texto),
         fecha_inicio |-> IF link # <<>> THEN Strip(link[1].text) ELSE <<>>,
         hora_inicio |-> IF span # <<>> THEN Strip(span[1].text) ELSE <<>>,
         fecha_fin |-> fin.fecha_fin,
         hora_fin |-> fin.hora_fin,
         nivel |-> IF img # <<>> /\ Truthy(img[1].src) /\ SearchNivel(img[1].src) # <<>>
                   THEN SearchNivel(img[1].src)[1] ELSE <<"desconocido">>,
         comunidad |-> get_comunidad(provincia),
         provincia |-> provincia,
         poblacion |-> IF Truthy(provincia) /\ Contains(full_text, provincia)
                       THEN Strip(RemoveAll(full_text, provincia)) ELSE <<>>,
         carretera |-> IF bold_carr # <<>> THEN Strip(bold_carr[1].text) ELSE <<>>,
         pk |-> IF SearchPk(descripcion_texto) # <<>> THEN SearchPk(descripcion_texto)[1] ELSE <<>>,
         sentido |-> Sentido(cells[6], descripcion_texto),
         descripcion |-> descripcion_texto,
         activa |-> Activa(fin.fecha_fin),
         latitud |-> None,
         longitud |-> None,
         precision_geo |-> None]

\* `'OBSTÁCULO FIJO' not in row_text`, row_text = row.get_text().upper()
SinFrase(row) == ~Contains(Upper(GetText(Flatten(row))), <<"OBSTÁCULO", " ", "FIJO">>)

\* `len(cells) <= 6` where the source has `len(cells) < 6`
PocasCeldas_seis(cells) == Len(cells) <= 6

\* `len(cells) < 6`
PocasCeldas(cells) == Len(cells) < 6

\* ------------------------------------------------------------ the pages
Hora == <<"1", "2", ":", "3", "0">>
Fecha == <<"0", "3", "/", "1", "1", "/", "2", "0", "2", "6">>
FechaCorta == <<"3", "/", "1", "1", "/", "2", "0", "2", "6">>

InicioCell ==
    <<SpanNode(<<"0", "8", ":", "1", "5">>),
      LinkNode(<<"0", "2", "/", "1", "1", "/", "2", "0", "2", "6">>,
               <<"verDetalle", "(", "'", "inciCodigo=", "4", "2", "'", ")">>)>>

\* the FIN cell: empty, an empty or blank <span>, time and date, a time alone,
\* a date alone, a time and a text that is not dd/mm/yyyy
FinCells ==
    {<<>>,
     <<SpanNode(<<>>)>>,
     <<SpanNode(<<" ">>), TextNode(Fecha)>>,
     <<SpanNode(Hora), TextNode(<<" ">> \o Fecha)>>,
     <<SpanNode(Hora)>>,
     <<TextNode(Fecha)>>,
     <<SpanNode(Hora), TextNode(<<" ">> \o FechaCorta)>>}

NivelCell == <<ImgNode(<<"/img/", "nivel_", "rojo", ".gif">>, <<"incidencia", "/", "4", "2">>)>>

ProvinciaCells ==
    {<<BoldNode(<<"MADRID">>), TextNode(<<" ", "ALCOBENDAS">>)>>,
     <<BoldNode(<<"Madrid">>), TextNode(<<"\n", "MADRID", " ", "NORTE">>)>>,
     <<TextNode(<<"LUGO">>)>>}

CarreteraCell == <<BoldNode(<<"A-1">>)>>

DescripcionCells ==
    {<<TextNode(<<"OBSTÁCULO", " ", "FIJO", "\n", " ", "km", " ", "2", "3", ".", "5", " ",
                  "sentido", " ", "Norte">>)>>,
     <<TextNode(<<"obstáculo", " ", "fijo", " ", "por", " ", "accidente">>)>>,
     <<TextNode(<<"OBSTÁCULO", " ", "FIJO", " ", "Sentido", ":">>), BoldNode(<<"Sur">>)>>,
     <<TextNode(<<"OBRAS", " ", "km", " ", "7">>)>>}

\* the <tr> rows of a page: rows of six cells, a row of seven, a row of five,
\* a row that names the obstacle in its TIPO cell and not in its description
Rows ==
    {<<InicioCell, f, NivelCell, p, CarreteraCell, d>> :
        f \in FinCells, p \in ProvinciaCells, d \in DescripcionCells}
    \cup {<<InicioCell, <<>>, NivelCell, <<BoldNode(<<"LUGO">>)>>, CarreteraCell,
            <<TextNode(<<"OBSTÁCULO", " ", "FIJO">>)>>, <<TextNode(<<"+">>)>>>>,
          <<InicioCell, <<>>, NivelCell, <<BoldNode(<<"LUGO">>)>>,
            <<TextNode(<<"OBSTÁCULO", " ", "FIJO">>)>>>>,
          <<InicioCell, <<>>, NivelCell \o <<TextNode(<<"OBSTÁCULO", " ", "FIJO">>)>>,
            <<BoldNode(<<"SEVILLA">>)>>, CarreteraCell,
            <<TextNode(<<"Accidente", " ", "km", " ", "7">>)>>>>}

\* rows of a page
MaxRows == 2

Pages == UNION {[1..n -> Rows] : n \in 0..MaxRows}

\* -------------------------------------------------------- parse_incidencias
InitParse ==
    /\ parse_pc = "ready"
    /\ fila = 0
    /\ incidencias = <<>>
    /\ origen = <<>>

\* soup = BeautifulSoup(html); incidencias = []; rows = soup.find_all('tr')
ParseStart ==
    /\ parse_pc = "ready"
    /\ parse_pc' = "loop"
    /\ fila' = 1
    /\ incidencias' = <<>>
    /\ origen' = <<>>
    /\ UNCHANGED <<html, geoVars, otherVars>>

\* the try block of the loop: the exception it raises ("none": it ends) and
\* the Incidencia it made
TryRow(row) == [exc |-> "none", value |-> <<parse_row(row, extract_id(row))>>]

\* an iteration that leaves the loop (`break`) at a row it cannot use, where
\* the source goes on to the next row (`continue`)
ParseRow_break ==
    /\ parse_pc = "loop"
    /\ fila <= Len(html)
    /\ LET row == html[fila] IN
        IF SinFrase(row) \/ PocasCeldas(row) \/ TryRow(row).exc # "none" \/ ~Truthy(TryRow(row).value)
        THEN /\ UNCHANGED <<incidencias, origen>>
             /\ fila' = Len(html) + 1
        ELSE /\ incidencias' = Append(incidencias, TryRow(row).value[1])
             /\ origen' = Append(origen, fila)
             /\ fila' = fila + 1
    /\ UNCHANGED <<html, parse_pc, geoVars, otherVars>>

\* one iteration of `for row in rows`
ParseRow ==
    /\ parse_pc = "loop"
    /\ fila <= Len(html)
    /\ LET row == html[fila] IN
        IF SinFrase(row) \/ PocasCeldas(row) \/ TryRow(row).exc # "none" \/ ~Truthy(TryRow(row).value)
        THEN UNCHANGED <<incidencias, origen>>
        ELSE /\ incidencias' = Append(incidencias, TryRow(row).value[1])
             /\ origen' = Append(origen, fila)
    /\ fila' = fila + 1
    /\ UNCHANGED <<html, parse_pc, geoVars, otherVars>>

\* `return incidencias`
ParseReturn ==
    /\ parse_pc = "loop"
    /\ fila > Len(html)
    /\ parse_pc' = "returned"
    /\ UNCHANGED <<html, fila, incidencias, origen, geoVars, otherVars>>

NextParse ==
    \/ ParseStart
    \/ ParseRow
    \/ ParseReturn

\* ------------------------------------------- functions called on their own
\* a filter in place (`incidencias[:] = ...`) where the source builds a list
filtrar_activas_inplace(lista) ==
    [returned |-> SelectSeq(lista, LAMBDA inc : inc.activa),
     incidencias |-> SelectSeq(lista, LAMBDA inc : inc.activa)]

\* [inc for inc in incidencias if inc.activa]: the list returned, and the
\* argument as the call leaves it
filtrar_activas(lista) ==
    [returned |-> SelectSeq(lista, LAMBDA inc : inc.activa), incidencias |-> lista]

\* province names as callers give them: the keys of the table and other names,
\* in upper, lower and mixed case, bare or with whitespace around them
NombresProvincia ==
    {<<>>, <<"MADRID">>, <<"Madrid">>, <<"madrid">>, <<"LUGO">>, <<"Lugo">>,
     <<"LA", " ", "RIOJA">>, <<"La", " ", "Rioja">>, <<"Atlantis">>, <<"RIOJA">>}

Margenes == {<<>>, <<" ">>, <<"\n", " ">>}

ProvinciaStrings == {l \o n \o r : l \in Margenes, n \in NombresProvincia, r \in Margenes}

\* marker strings: digits, decimal commas and dots
MaxMarker == 3

Markers == UNION {[1..n -> {"2", ",", "."}] : n \in 0..MaxMarker}

\* lists of records: those parse_row makes of three rows, one of them active
MaxList == 3

RowsDeMuestra ==
    {<<InicioCell, f, NivelCell, <<BoldNode(<<"MADRID">>), TextNode(<<" ", "ALCOBENDAS">>)>>,
       CarreteraCell, <<TextNode(<<"OBSTÁCULO", " ", "FIJO">>)>>>> :
        f \in {<<>>, <<SpanNode(Hora), TextNode(<<" ">> \o Fecha)>>, <<SpanNode(Hora)>>}}

Listas ==
    UNION {[1..n -> {parse_row(row, extract_id(row)) : row \in RowsDeMuestra}] : n \in 0..MaxList}

\* the calls: the function and its argument
LlamadasGetComunidad == {[f |-> "get_comunidad", x |-> s] : s \in ProvinciaStrings}
LlamadasFiltrarActivas == {[f |-> "filtrar_activas", x |-> l] : l \in Listas}
LlamadasNormalizarPk == {[f |-> "normalizar_pk", x |-> k] : k \in Markers}
LlamadasParseRow == {[f |-> "parse_row", x |-> row] : row \in {r \in Rows : ~PocasCeldas(r)}}

NoEntrada == [f |-> "none", x |-> <<>>]

\* no function is called on its own
InitIdle == entrada = NoEntrada /\ dada = NoEntrada /\ salida = <<>>

InitPure ==
    /\ \/ entrada \in LlamadasGetComunidad
       \/ entrada \in LlamadasFiltrarActivas
       \/ entrada \in LlamadasNormalizarPk
       \/ entrada \in LlamadasParseRow
    /\ dada = entrada
    /\ salida = <<>>

\* get_comunidad(provincia)
AplicarGetComunidad ==
    /\ entrada.f = "get_comunidad"
    /\ salida = <<>>
    /\ salida' = <<get_comunidad(entrada.x)>>
    /\ UNCHANGED <<entrada, dada, geoVars, parseVars, appVars>>

\* filtrar_activas(incidencias)
AplicarFiltrarActivas ==
    /\ entrada.f = "filtrar_activas"
    /\ salida = <<>>
    /\ salida' = <<filtrar_activas(entrada.x).returned>>
    /\ entrada' = [entrada EXCEPT !.x = filtrar_activas(entrada.x).incidencias]
    /\ UNCHANGED <<dada, geoVars, parseVars, appVars>>

\* pk_normalizado = pk.replace(',', '.') if pk else '', on the marker and then
\* on what it made of the marker
AplicarNormalizarPk ==
    /\ entrada.f = "normalizar_pk"
    /\ Len(salida) < 2
    /\ salida' = Append(salida, NormalizarPk(IF salida = <<>> THEN entrada.x ELSE salida[Len(salida)]))
    /\ UNCHANGED <<entrada, dada, geoVars, parseVars, appVars>>

\* parse_row(cells, row_id) on the cells of one row
AplicarParseRow ==
    /\ entrada.f = "parse_row"
    /\ salida = <<>>
    /\ salida' = <<parse_row(entrada.x, extract_id(entrada.x))>>
    /\ UNCHANGED <<entrada, dada, geoVars, parseVars, appVars>>

NextPure ==
    \/ AplicarGetComunidad
    \/ AplicarFiltrarActivas
    \/ AplicarNormalizarPk
    \/ AplicarParseRow

\* ------------------------------------------------------- the API server
\* cache['ttl'], in seconds
Ttl == 60

RECURSIVE parse_incidencias(_)
\* parse_incidencias(html), the loop run to its end: the list it returns
parse_incidencias(rows) ==
    IF rows = <<>> THEN <<>>
    ELSE IF SinFrase(Head(rows)) \/ PocasCeldas(Head(rows)) \/ TryRow(Head(rows)).exc # "none"
            \/ ~Truthy(TryRow(Head(rows)).value)
         THEN parse_incidencias(Tail(rows))
         ELSE <<TryRow(Head(rows)).value[1]>> \o parse_incidencias(Tail(rows))

RECURSIVE RunCascade(_, _, _, _, _, _)
\* geocodificar_baliza from strategy l on, run to its return: memo, last and
\* now are _geocode_cache, _last_request_time and time.time() as the strategy
\* finds them, oracle[k] is what the HTTP call of strategy k does.  A request
\* is sent once time.sleep has made up the residual interval; the reply takes
\* no time.
RunCascade(a, l, memo, last, now, oracle) ==
    IF l = 8 THEN [result |-> None, memo |-> memo, last |-> last, now |-> now]
    ELSE
        LET q == Query(l, a.carretera, NormalizarPk(a.pk), a.provincia, LimpiarPoblacion(a.poblacion))
            hit == q \in DOMAIN memo
            r == TryBody(oracle[l])
            sent == now + Residual(now - last)
            coords == IF hit THEN memo[q] ELSE r.value
            memo2 == IF hit \/ ~r.store THEN memo
                     ELSE [x \in DOMAIN memo \cup {q} |-> IF x = q THEN r.value ELSE memo[x]]
            last2 == IF hit THEN last ELSE sent
            now2 == IF hit THEN now ELSE sent
        IN  IF Truthy(coords)
            THEN [result |-> <<Coordenadas(coords, l, q)>>, memo |-> memo2, last |-> last2, now |-> now2]
            ELSE RunCascade(a, NextLevel(l, a.carretera, NormalizarPk(a.pk), LimpiarPoblacion(a.poblacion)),
                            memo2, last2, now2, oracle)

\* geocodificar_baliza(baliza.carretera, baliza.pk, baliza.provincia, baliza.poblacion, ...)
geocodificar_baliza(baliza, memo, last, now, oracle) ==
    RunCascade(baliza, NextLevel(0, baliza.carretera, NormalizarPk(baliza.pk), LimpiarPoblacion(baliza.poblacion)),
               memo, last, now, oracle)

\* what the HTTP calls of the strategies of one resolver call do
Oracles(baliza) ==
    [{l \in Levels : Applicable(l, baliza.carretera, NormalizarPk(baliza.pk), LimpiarPoblacion(baliza.poblacion))}
        -> Responses]

\* an attachment that leaves `baliza.precision_geo = coords.precision` out
Attach_sin_precision(baliza, coords) ==
    IF Truthy(coords)
    THEN [baliza EXCEPT !.latitud = <<coords[1].latitud>>, !.longitud = <<coords[1].longitud>>]
    ELSE baliza

\* `if coords: baliza.latitud = ...; baliza.longitud = ...; baliza.precision_geo = ...`
Attach(baliza, coords) ==
    IF Truthy(coords)
    THEN [baliza EXCEPT !.latitud = <<coords[1].latitud>>, !.longitud = <<coords[1].longitud>>,
                        !.precision_geo = <<coords[1].precision>>]
    ELSE baliza

\* the rows the upstream source serves: an open incidence on the A-1 in Lugo,
\* a closed one, an open one with no road
InicioCell7 ==
    <<SpanNode(<<"0", "9", ":", "0", "0">>),
      LinkNode(<<"0", "2", "/", "1", "1", "/", "2", "0", "2", "6">>,
               <<"verDetalle", "(", "'", "inciCodigo=", "7", "'", ")">>)>>

FilaAbierta ==
    <<InicioCell, <<>>, NivelCell, <<BoldNode(<<"LUGO">>)>>, CarreteraCell,
      <<TextNode(<<"OBSTÁCULO", " ", "FIJO">>)>>>>

FilaCerrada ==
    <<InicioCell7, <<SpanNode(Hora), TextNode(<<" ">> \o Fecha)>>, NivelCell, <<BoldNode(<<"LUGO">>)>>,
      CarreteraCell, <<TextNode(<<"OBSTÁCULO", " ", "FIJO">>)>>>>

FilaSinCarretera ==
    <<InicioCell7, <<>>, NivelCell, <<BoldNode(<<"MADRID">>)>>, <<>>,
      <<TextNode(<<"OBSTÁCULO", " ", "FIJO">>)>>>>

\* the pages the upstream source serves; the first has no matching row
AppPages ==
    {<<>>, <<FilaAbierta>>, <<FilaCerrada, FilaAbierta>>, <<FilaAbierta, FilaSinCarretera>>}

\* parse_incidencias(response.text) of fetch_balizas_activas, for each page
Extraidas == [p \in AppPages |-> parse_incidencias(p)]

\* what the HTTP call of fetch_balizas_activas does: it raises, or a page arrives
Upstreams ==
    {[ok |-> FALSE, page |-> <<>>]} \cup {[ok |-> TRUE, page |-> p] : p \in AppPages}

\* the <id> of a request for /api/balizas/<id>/ubicacion
Ids == {<<"4", "2">>, <<"7">>, <<"9">>}

\* handler and script runs followed
MaxPeticiones == 2

\* runs of the read-only handlers followed after those
MaxLecturas == 1

\* TTL windows the clock is followed for
MaxTtls == 1

NoDevuelto == [raised |-> FALSE, fetch |-> "none", data |-> <<>>]

InitApp ==
    /\ cache_data = <<>>
    /\ last_update = None
    /\ app_pc = "idle"
    /\ activas = <<>>
    /\ locales = <<>>
    /\ cursor = 0
    /\ devuelto = NoDevuelto
    /\ extraido = [cache |-> <<>>, locales |-> <<>>, cuando |-> None]
    /\ exitos = FALSE
    /\ peticiones = 0

\* a freshness test that takes an age of exactly the TTL for fresh
Fresh_hasta == last_update # None /\ clock - last_update[1] <= Ttl * TicksPerSecond

\* `cache['last_update'] and (now - cache['last_update']) < cache['ttl']`
Fresh == last_update # None /\ clock - last_update[1] < Ttl * TicksPerSecond

\* a get_incidencias_con_cache that writes cache['last_update'] = now when the fetch fails too
get_incidencias_con_cache_sellado(upstream) ==
    IF Fresh
    THEN [raised |-> FALSE, fetch |-> "none", data |-> cache_data,
          cache_data |-> cache_data, last_update |-> last_update]
    ELSE IF upstream.ok
    THEN [raised |-> FALSE, fetch |-> "ok", data |-> Extraidas[upstream.page],
          cache_data |-> Extraidas[upstream.page], last_update |-> <<clock>>]
    ELSE IF Truthy(cache_data)
    THEN [raised |-> FALSE, fetch |-> "failed", data |-> cache_data,
          cache_data |-> cache_data, last_update |-> <<clock>>]
    ELSE [raised |-> TRUE, fetch |-> "failed", data |-> <<>>,
          cache_data |-> cache_data, last_update |-> <<clock>>]

\* get_incidencias_con_cache(): what it returns or that it raises, and what it
\* leaves in cache['data'] and cache['last_update']
get_incidencias_con_cache(upstream) ==
    IF Fresh
    THEN [raised |-> FALSE, fetch |-> "none", data |-> cache_data,
          cache_data |-> cache_data, last_update |-> last_update]
    ELSE IF upstream.ok
    THEN [raised |-> FALSE, fetch |-> "ok", data |-> Extraidas[upstream.page],
          cache_data |-> Extraidas[upstream.page], last_update |-> <<clock>>]
    ELSE IF Truthy(cache_data)
    THEN [raised |-> FALSE, fetch |-> "failed", data |-> cache_data,
          cache_data |-> cache_data, last_update |-> last_update]
    ELSE [raised |-> TRUE, fetch |-> "failed", data |-> <<>>,
          cache_data |-> cache_data, last_update |-> last_update]

\* the history of a get_incidencias_con_cache call
Registrar(g) ==
    /\ devuelto' = [raised |-> g.raised, fetch |-> g.fetch, data |-> g.data]
    /\ extraido' = IF g.fetch = "ok"
                   THEN [extraido EXCEPT !.cache = g.data, !.cuando = <<clock>>]
                   ELSE extraido
    /\ exitos' = (exitos \/ g.fetch = "ok")
    /\ last_update' = g.last_update
    /\ peticiones' = peticiones + 1

\* next((inc for inc in incidencias if inc.id == id), None): None, or <<its position>>
Buscar(lista, id) ==
    LET P == {i \in 1..Len(lista) : lista[i].id = id} IN
    IF P = {} THEN <<>> ELSE <<Leftmost(P)>>

\* a handler that reads the cached records and changes none (/api/balizas,
\* /api/balizas/<id>, /api/balizas/todas, /api/balizas/tipo/<tipo>, /api/status)
GetBalizas ==
    /\ app_pc = "idle"
    /\ peticiones < MaxPeticiones + MaxLecturas
    /\ \E upstream \in Upstreams :
        LET g == get_incidencias_con_cache(upstream) IN
        /\ Registrar(g)
        /\ cache_data' = g.cache_data
    /\ UNCHANGED <<app_pc, activas, locales, cursor, geoVars, parseVars, pureVars>>

\* /api/balizas/<id>/ubicacion
GetBalizaUbicacion ==
    /\ app_pc = "idle"
    /\ peticiones < MaxPeticiones
    /\ \E upstream \in Upstreams, id \in Ids :
        LET g == get_incidencias_con_cache(upstream)
            found == Buscar(g.data, id)
        IN  /\ Registrar(g)
            /\ IF ~g.raised /\ found # <<>> /\ g.data[found[1]].latitud = None
               THEN \E oracle \in Oracles(g.data[found[1]]) :
                    LET rc == geocodificar_baliza(g.data[found[1]], geocode_cache, last_request_time,
                                                  clock, oracle) IN
                    /\ cache_data' = [g.cache_data EXCEPT ![found[1]] = Attach(@, rc.result)]
                    /\ geocode_cache' = rc.memo
                    /\ last_request_time' = rc.last
                    /\ clock' = rc.now
               ELSE /\ cache_data' = g.cache_data
                    /\ UNCHANGED <<geocode_cache, last_request_time, clock>>
    /\ UNCHANGED <<app_pc, activas, locales, cursor, balizas, serialized, pc, args, level, wake,
                   result, attempts, calls, requests, issues, errors, parseVars, pureVars>>

\* /api/balizas/mapa up to its loop: get_incidencias_con_cache, filtrar_activas
MapaStart ==
    /\ app_pc = "idle"
    /\ peticiones < MaxPeticiones
    /\ \E upstream \in Upstreams :
        LET g == get_incidencias_con_cache(upstream) IN
        /\ Registrar(g)
        /\ cache_data' = g.cache_data
        /\ IF g.raised
           THEN UNCHANGED <<app_pc, activas, cursor>>
           ELSE /\ app_pc' = "mapa"
                /\ activas' = SelectSeq([i \in 1..Len(g.data) |-> i], LAMBDA i : g.data[i].activa)
                /\ cursor' = 1
    /\ UNCHANGED <<locales, geoVars, parseVars, pureVars>>

\* one iteration of `for baliza in activas` of /api/balizas/mapa
MapaStep ==
    /\ app_pc = "mapa"
    /\ cursor <= Len(activas)
    /\ LET i == activas[cursor] IN
        IF cache_data[i].latitud = None
        THEN \E oracle \in Oracles(cache_data[i]) :
            LET rc == geocodificar_baliza(cache_data[i], geocode_cache, last_request_time, clock, oracle) IN
            /\ cache_data' = [cache_data EXCEPT ![i] = Attach(@, rc.result)]
            /\ geocode_cache' = rc.memo
            /\ last_request_time' = rc.last
            /\ clock' = rc.now
        ELSE UNCHANGED <<cache_data, geocode_cache, last_request_time, clock>>
    /\ cursor' = cursor + 1
    /\ UNCHANGED <<last_update, app_pc, activas, locales, devuelto, extraido, exitos, peticiones,
                   balizas, serialized, pc, args, level, wake, result, attempts, calls, requests,
                   issues, errors, parseVars, pureVars>>

\* the loop of a handler or of the script is over: it answers
LoopEnd ==
    /\ app_pc \in {"mapa", "script"}
    /\ cursor > Len(IF app_pc = "mapa" THEN activas ELSE locales)
    /\ app_pc' = "idle"
    /\ activas' = <<>>
    /\ cursor' = 0
    /\ UNCHANGED <<cache_data, last_update, locales, devuelto, extraido, exitos, peticiones,
                   geoVars, parseVars, pureVars>>

\* obtener_balizas_geocodificadas up to its loop: fetch_balizas_activas (its
\* exception ends the script), filtrar_activas
ScriptStart ==
    /\ app_pc = "idle"
    /\ peticiones < MaxPeticiones
    /\ peticiones' = peticiones + 1
    /\ \E upstream \in Upstreams :
        IF upstream.ok
        THEN /\ locales' = filtrar_activas(Extraidas[upstream.page]).returned
             /\ extraido' = [extraido EXCEPT !.locales = filtrar_activas(Extraidas[upstream.page]).returned]
             /\ app_pc' = "script"
             /\ cursor' = 1
        ELSE UNCHANGED <<locales, extraido, app_pc, cursor>>
    /\ UNCHANGED <<cache_data, last_update, activas, devuelto, exitos, geoVars, parseVars, pureVars>>

\* one iteration of `for i, baliza in enumerate(activas, 1)` of the script
ScriptStep ==
    /\ app_pc = "script"
    /\ cursor <= Len(locales)
    /\ \E oracle \in Oracles(locales[cursor]) :
        LET rc == geocodificar_baliza(locales[cursor], geocode_cache, last_request_time, clock, oracle) IN
        /\ locales' = [locales EXCEPT ![cursor] = Attach(@, rc.result)]
        /\ geocode_cache' = rc.memo
        /\ last_request_time' = rc.last
        /\ clock' = rc.now
    /\ cursor' = cursor + 1
    /\ UNCHANGED <<cache_data, last_update, app_pc, activas, devuelto, extraido, exitos, peticiones,
                   balizas, serialized, pc, args, level, wake, result, attempts, calls, requests,
                   issues, errors, parseVars, pureVars>>

\* time passes between two requests to the server: a tick less than the TTL, or the TTL
Pasa ==
    /\ app_pc = "idle"
    /\ clock < StartTime + MaxTtls * Ttl * TicksPerSecond
    /\ \E d \in {Ttl * TicksPerSecond - 1, Ttl * TicksPerSecond} : clock' = clock + d
    /\ UNCHANGED <<balizas, serialized, geocode_cache, last_request_time, pc, args, level, wake,
                   result, attempts, calls, requests, issues, errors, parseVars, pureVars, appVars>>

NextApp ==
    \/ GetBalizas
    \/ GetBalizaUbicacion
    \/ MapaStart
    \/ MapaStep
    \/ ScriptStart
    \/ ScriptStep
    \/ LoopEnd
    \/ Pasa

\* ------------------------------------------------------------------ specs
vars == <<geoVars, parseVars, pureVars, appVars>>

\* single-threaded use: every resolver call runs alone
Init == balizas \in Tables /\ serialized = TRUE /\ InitGeo /\ html = <<>> /\ InitParse /\ InitIdle /\ InitApp
Next == NextGeo
Spec == Init /\ [][Next]_vars

\* the tables whose records make short cascades: no marker, no locality
ConcTables == {T \in Tables : \A a \in T : a.pk = <<>> /\ a.poblacion = <<>>}

\* two callers, with or without external synchronization
InitConc == balizas \in ConcTables /\ serialized \in BOOLEAN /\ InitGeo /\ html = <<>> /\ InitParse /\ InitIdle /\ InitApp
SpecConc == InitConc /\ [][Next]_vars

\* parse_incidencias on one page
InitPage == balizas = {NoArgs} /\ serialized = TRUE /\ InitGeo /\ html \in Pages /\ InitParse /\ InitIdle /\ InitApp
SpecParse == InitPage /\ [][NextParse]_vars

\* one function called on its own
InitFn == balizas = {NoArgs} /\ serialized = TRUE /\ InitGeo /\ html = <<>> /\ InitParse /\ InitPure /\ InitApp
SpecPure == InitFn /\ [][NextPure]_vars

\* the API server and the map script, one request at a time
InitServer == balizas = {NoArgs} /\ serialized = TRUE /\ InitGeo /\ html = <<>> /\ InitParse /\ InitIdle /\ InitApp
SpecApp == InitServer /\ [][NextApp]_vars

\* ============================================================= properties
Second == TicksPerSecond

Last(s) == s[Len(s)]

\* the requests i < j that carry the same query string
SameQuery(i, j) == i < j /\ requests[i].query = requests[j].query

\* the pair of resolver calls of a run has identical normalized inputs
PairOfCalls == Len(calls) = 2 /\ Normalized(calls[1].args) = Normalized(calls[2].args)

\* C1: in single-threaded execution two consecutive outbound requests are
\* issued at least one second apart, whatever their outcome, their cascade and
\* the limpiar_cache calls between them; hence N requests take at least N - 1
\* seconds from the first to the last.
C1_RateLimit ==
    serialized =>
        /\ Len(requests) >= 2 => issues.last - issues.prev >= Second
        /\ Len(requests) >= 1 => issues.last - issues.first >= (Len(requests) - 1) * Second

\* three requests of two resolver calls, a failed one and one from before a
\* limpiar_cache among them, the last sent two seconds sharp after the first
C1_Witness ==
    /\ serialized
    /\ Len(requests) >= 3
    /\ Len(calls) = 2
    /\ issues.last - issues.first = 2 * Second
    /\ \E i \in 1..Len(requests) : requests[i].outcome = "error"
    /\ \E i \in 1..Len(requests) : requests[i].cleared

\* C2 (as stated): across two resolver calls with identical normalized inputs
\* and no limpiar_cache between them, no query string is sent twice.
C2_Original ==
    PairOfCalls =>
        \A i, j \in 1..Len(requests) : ~(SameQuery(i, j) /\ ~requests[i].cleared)

\* C2 (amended): across two resolver calls with identical normalized inputs, a
\* query string is sent again only if its earlier request raised (transport
\* error or malformed payload) or limpiar_cache ran after it: a query whose
\* request returned a match or no match is answered from the memo cache.
C2_Memoization ==
    PairOfCalls =>
        \A i, j \in 1..Len(requests) :
            SameQuery(i, j) => requests[i].outcome = "error" \/ requests[i].cleared

\* the second of two calls, its arguments different as scraped and identical
\* once normalized, has walked a cascade of two levels or more out of the cache
C2_Witness ==
    /\ PairOfCalls
    /\ calls[1].args # calls[2].args
    /\ \A i \in 1..Len(requests) : requests[i].call = 1 /\ ~requests[i].cleared
    /\ \E t \in Threads :
        /\ pc[t] = "done"
        /\ CallOf(t) = 2
        /\ Len(attempts[t]) >= 2
        /\ \A k \in 1..Len(attempts[t]) : attempts[t][k].how = "cache"

\* C3: when the memo cache holds an entry for the query (a coordinate pair or
\* None), geocodificar_nominatim returns the entry and sends no request, does
\* not sleep, and leaves the rate-limit timestamp and the memo cache as they were.
C3_CacheHitFrame ==
    [][\A t \in Threads :
        (/\ pc[t] = "lookup"
         /\ QueryOf(t) \in DOMAIN geocode_cache
         /\ (pc'[t] # pc[t] \/ attempts'[t] # attempts[t] \/ level'[t] # level[t]))
        => /\ geocode_cache' = geocode_cache
           /\ last_request_time' = last_request_time
           /\ requests' = requests
           /\ issues' = issues
           /\ clock' = clock
           /\ wake' = wake
           /\ pc'[t] \in {"lookup", "done"}
           /\ Len(attempts'[t]) = Len(attempts[t]) + 1
           /\ Last(attempts'[t]).query = QueryOf(t)
           /\ Last(attempts'[t]).coords = geocode_cache[QueryOf(t)]]_vars

\* a call was answered None from the cache at one level and coordinates from
\* the cache at a later one
C3_Witness ==
    \E t \in Threads :
        /\ pc[t] = "done"
        /\ result[t] # None
        /\ Last(attempts[t]).how = "cache"
        /\ \E k \in 1..Len(attempts[t]) :
            attempts[t][k].how = "cache" /\ attempts[t][k].coords = None

\* the label the cascade gives each level: 1 very high, 2 and 3 high, 4 and 5
\* medium, 6 low, 7 estimated
C4_Label(l) ==
    CASE l = 1 -> "muy_alta"
      [] l \in {2, 3} -> "alta"
      [] l \in {4, 5} -> "media"
      [] l = 6 -> "baja"
      [] l = 7 -> "estimada"

\* the attempts of a call so far go down the cascade, none after a success,
\* and a returned Coordenadas carries the label of the level that matched
C4_Cascade(t) ==
    /\ \A k \in 1..Len(attempts[t]) : attempts[t][k].level \in Levels
    /\ \A k \in 1..(Len(attempts[t]) - 1) :
        /\ attempts[t][k].level < attempts[t][k + 1].level
        /\ ~Truthy(attempts[t][k].coords)
    /\ (pc[t] = "done" /\ result[t] # None) =>
        /\ Truthy(Last(attempts[t]).coords)
        /\ result[t][1].precision = C4_Label(Last(attempts[t]).level)

\* C4 (as stated): the cascade runs in the order 1..7, stops at the first
\* success and returns its label; with road, marker, province and locality
\* non-empty the four-field query is the first one attempted.
C4_Original ==
    \A t \in Threads :
        /\ C4_Cascade(t)
        /\ (/\ attempts[t] # <<>>
            /\ Truthy(args[t].carretera) /\ Truthy(args[t].pk)
            /\ Truthy(args[t].provincia) /\ Truthy(args[t].poblacion))
           => attempts[t][1].level = 1

\* C4 (amended): the cascade runs in the order 1..7, stops at the first
\* success and returns its label; with road, marker, province and the
\* locality that is left once its parenthesized suffix is cut non-empty, the
\* four-field query is the first one attempted.
C4_Order ==
    \A t \in Threads :
        /\ C4_Cascade(t)
        /\ (/\ attempts[t] # <<>>
            /\ Truthy(args[t].carretera) /\ Truthy(args[t].pk)
            /\ Truthy(args[t].provincia)
            /\ Truthy(Strip(SplitFirst(args[t].poblacion, "("))))
           => /\ attempts[t][1].level = 1
              /\ attempts[t][1].query =
                    args[t].carretera \o <<" ", "km", " ">> \o Replace(args[t].pk, ",", ".")
                    \o <<",", " ">> \o Strip(SplitFirst(args[t].poblacion, "("))
                    \o <<",", " ">> \o args[t].provincia \o <<",", " ", "España">>

\* a call with the four fields, the locality with a suffix to cut, that missed
\* at levels 1 and 2 and returned the coordinates of level 3 labelled high
C4_Witness ==
    \E t \in Threads :
        /\ pc[t] = "done"
        /\ result[t] # None
        /\ result[t][1].precision = "alta"
        /\ args[t].poblacion = <<"OUTEIRO", " ", "(", "O", ")">>
        /\ Truthy(args[t].provincia)
        /\ Len(attempts[t]) = 3
        /\ attempts[t][1].level = 1
        /\ attempts[t][3].level = 3

\* the fields the query of each level is built from
C5_Fields(l) ==
    CASE l = 1 -> {"carretera", "pk", "poblacion", "provincia"}
      [] l = 2 -> {"poblacion", "carretera", "provincia"}
      [] l = 3 -> {"carretera", "pk", "provincia"}
      [] l = 4 -> {"carretera", "pk"}
      [] l = 5 -> {"poblacion", "provincia"}
      [] l = 6 -> {"carretera", "provincia"}
      [] l = 7 -> {"provincia"}

\* C5 (as stated): a level's query is attempted only if every field it is
\* built from is non-empty; no query with the province in it is attempted
\* when the province is empty.
C5_Original ==
    \A t \in Threads : \A k \in 1..Len(attempts[t]) :
        \A f \in C5_Fields(attempts[t][k].level) : Truthy(Normalized(args[t])[f])

\* C6: an exception of the HTTP call of an attempt (transport error, bad
\* status, malformed payload) never leaves the resolver: the attempt is a no
\* match for its level, the cascade goes on to the next applicable level, and
\* a later success is what the call returns.
C6_Swallowed ==
    \A t \in Threads :
        /\ pc[t] # "raised"
        /\ \A k \in 1..Len(attempts[t]) :
            attempts[t][k].how = "error" =>
                /\ attempts[t][k].coords = None
                /\ LET l == attempts[t][k].level
                       later == {m \in (l + 1)..7 :
                                    Applicable(m, args[t].carretera, PkNormalizado(t), PoblacionLimpia(t))}
                   IN  IF later = {}
                       THEN k = Len(attempts[t]) /\ pc[t] = "done" /\ result[t] = None
                       ELSE \/ k = Len(attempts[t]) /\ pc[t] # "done"
                            \/ k < Len(attempts[t]) /\ attempts[t][k + 1].level \in later
                                 /\ \A m \in later : attempts[t][k + 1].level <= m
        /\ (pc[t] = "done" /\ attempts[t] # <<>> /\ Truthy(Last(attempts[t]).coords)) =>
            /\ result[t] # None
            /\ <<result[t][1].latitud, result[t][1].longitud>> = Last(attempts[t]).coords

\* a call returned the coordinates of a request sent after an attempt of its
\* cascade had failed with a malformed payload
C6_Witness ==
    \E t \in Threads :
        /\ pc[t] = "done"
        /\ result[t] # None
        /\ Last(attempts[t]).how = "request"
        /\ \E k \in 1..Len(attempts[t]) : attempts[t][k].how = "error"
        /\ \E i \in 1..Len(requests) :
            requests[i].outcome = "error" /\ requests[i].reply = <<BadMatch>>

\* C7: geocodificar_baliza returns None if and only if every level it
\* attempted gave no match, and then level 7 was attempted; the latitude and
\* longitude of a returned Coordenadas are those of the first result of the
\* reply to the query that matched.
C7_Result ==
    \A t \in Threads :
        pc[t] = "done" =>
            /\ result[t] = None <=> \A k \in 1..Len(attempts[t]) : attempts[t][k].coords = None
            /\ result[t] = None => attempts[t] # <<>> /\ Last(attempts[t]).level = 7
            /\ result[t] # None =>
                \E i \in 1..Len(requests) :
                    /\ requests[i].query = Last(attempts[t]).query
                    /\ requests[i].outcome = "match"
                    /\ result[t][1].latitud = ToFloat(requests[i].reply[1].lat)
                    /\ result[t][1].longitud = ToFloat(requests[i].reply[1].lon)

\* a call went down the seven levels, one of its requests failing, and
\* returned None; another request of the run was answered with two results
C7_Witness ==
    \E t \in Threads :
        /\ pc[t] = "done"
        /\ result[t] = None
        /\ Len(attempts[t]) = 7
        /\ Last(attempts[t]).level = 7
        /\ \E k \in 1..7 : attempts[t][k].how = "error"
        /\ \E i \in 1..Len(requests) : requests[i].outcome = "match"

\* two requests issued less than a second apart
C8_TooClose == Len(requests) >= 2 /\ issues.last - issues.prev < Second

\* two requests with the same query string, none of them failed, and no
\* limpiar_cache after the first
C8_Duplicate ==
    \E i, j \in 1..Len(requests) :
        SameQuery(i, j) /\ requests[i].outcome # "error" /\ ~requests[i].cleared

\* C8 (as stated): with access serialized, two requests are never issued less
\* than a second apart and no query string is sent to the service twice.
C8_Original ==
    serialized =>
        /\ ~C8_TooClose
        /\ \A i, j \in 1..Len(requests) : ~SameQuery(i, j)

\* C8 (amended): two unsynchronized callers can issue two requests less than a
\* second apart and send the same query twice; with access serialized two
\* requests are never issued less than a second apart, and a query is sent
\* twice only after its earlier request raised or limpiar_cache ran.
C8_Serialized == serialized => ~C8_TooClose /\ ~C8_Duplicate

\* two unsynchronized callers both passed _rate_limit and the cache check
\* before either stamped or stored: two requests with the same query at the
\* same time, both answered
C8_Witness ==
    /\ ~serialized
    /\ C8_TooClose
    /\ \E i, j \in 1..Len(requests) :
        /\ SameQuery(i, j)
        /\ requests[i].by # requests[j].by
        /\ requests[i].outcome \in {"match", "nomatch"}
        /\ requests[j].outcome \in {"match", "nomatch"}
        /\ ~requests[i].cleared

\* the row contains the target phrase and has six cells or more
C9_Qualifies(row) ==
    /\ Len(row) >= 6
    /\ Contains(Upper(GetText(Flatten(row))), <<"OBSTÁCULO", " ", "FIJO">>)

\* C9: parse_incidencias yields exactly one record for every row that contains
\* the target phrase and has six cells or more, and every record of its output
\* has activa = (fecha_fin is None).
C9_OnePerRow ==
    parse_pc \in {"loop", "returned"} =>
        /\ Len(origen) = Len(incidencias)
        /\ \A k \in 1..(Len(origen) - 1) : origen[k] < origen[k + 1]
        /\ \A i \in 1..Len(html) :
            (i < fila /\ C9_Qualifies(html[i])) <=> \E k \in 1..Len(origen) : origen[k] = i
        /\ \A k \in 1..Len(incidencias) :
            incidencias[k].activa = (incidencias[k].fecha_fin = None)
        /\ parse_pc = "returned" => fila = Len(html) + 1

\* a page of a five-cell row with the phrase and a six-cell row with an end
\* date: one record, of the second row, not active
C9_Witness ==
    /\ parse_pc = "returned"
    /\ Len(html) = 2
    /\ Len(html[1]) = 5
    /\ C9_Qualifies(html[2])
    /\ origen = <<2>>
    /\ incidencias[1].fecha_fin # None
    /\ ~incidencias[1].activa

\* the end cell has a <span> whose text is not blank
C10_Label(cell) ==
    \E i \in 1..Len(cell) :
        /\ cell[i].tag = "span"
        /\ \A j \in 1..(i - 1) : cell[j].tag # "span"
        /\ \E k \in 1..Len(cell[i].text) : cell[i].text[k] \notin Whitespace

\* C10 (as stated): in every record the end date and the end time are both
\* set or both None; when the end cell has no non-empty label span or its
\* text has no date-shaped pattern, both are None and the record is active.
C10_Original ==
    \A k \in 1..Len(incidencias) :
        LET cell == html[origen[k]][2] IN
        /\ (incidencias[k].hora_fin = None) <=> (incidencias[k].fecha_fin = None)
        /\ (~C10_Label(cell) \/ SearchDate(GetText(cell)) = <<>>) =>
            /\ incidencias[k].hora_fin = None
            /\ incidencias[k].fecha_fin = None
            /\ incidencias[k].activa

\* C11 (as stated): the tipo of a record is the accident one if and only if
\* its whitespace-normalized description contains the accident marker, in any
\* casing, and the plain one otherwise, whether or not the description
\* contains the row-filter phrase.
C11_Original ==
    \A k \in 1..Len(incidencias) :
        IF Contains(Upper(incidencias[k].descripcion), <<"ACCIDENTE">>)
        THEN incidencias[k].tipo = <<"OBSTÁCULO", " ", "FIJO", " ", "POR", " ", "ACCIDENTE">>
        ELSE incidencias[k].tipo = <<"OBSTÁCULO", " ", "FIJO">>

\* the row matches the filter and gives no record: it has fewer than six
\* cells, or its parsing raises
C12_Bad(row) ==
    /\ Contains(Upper(GetText(Flatten(row))), <<"OBSTÁCULO", " ", "FIJO">>)
    /\ (Len(row) < 6 \/ TryRow(row).exc # "none")

RECURSIVE C12_Records(_)
\* the records of the matching rows that are not bad, each as parse_row makes
\* it of its row alone, in document order
C12_Records(rows) ==
    IF rows = <<>> THEN <<>>
    ELSE IF Contains(Upper(GetText(Flatten(Head(rows)))), <<"OBSTÁCULO", " ", "FIJO">>)
            /\ ~C12_Bad(Head(rows))
         THEN <<parse_row(Head(rows), extract_id(Head(rows)))>> \o C12_Records(Tail(rows))
         ELSE C12_Records(Tail(rows))

C13_Comunidad ==
    /\ (entrada.f = "get_comunidad" /\ salida # <<>>) =>
        /\ \A k \in DOMAIN ProvinciasComunidades :
            Strip(Upper(dada.x)) = k => salida[1] = ProvinciasComunidades[k]
        /\ Strip(Upper(dada.x)) \notin DOMAIN ProvinciasComunidades => salida[1] = <<"DESCONOCIDA">>
        /\ salida[1] # <<>>
    /\ (entrada.f = "parse_row" /\ salida # <<>>) =>
        /\ salida[1].comunidad # <<>>
        /\ Strip(Upper(salida[1].provincia)) \notin DOMAIN ProvinciasComunidades
            => salida[1].comunidad = <<"DESCONOCIDA">>

\* the name " La Rioja", a line break and a blank after it, gave LA RIOJA
C13_Witness ==
    /\ entrada.f = "get_comunidad"
    /\ dada.x = <<" ", "La", " ", "Rioja", "\n", " ">>
    /\ salida = <<(<<"LA", " ", "RIOJA">>)>>

RECURSIVE C14_Activas(_)
\* the records of a list whose activa flag is true, in the order of the list
C14_Activas(l) ==
    IF l = <<>> THEN <<>>
    ELSE IF Head(l).activa THEN <<Head(l)>> \o C14_Activas(Tail(l))
    ELSE C14_Activas(Tail(l))

\* C14: filtrar_activas returns the records of its input whose activa flag is
\* true, in the input's order, and leaves the input list and its records as
\* they were.
C14_Filtrar ==
    (entrada.f = "filtrar_activas" /\ salida # <<>>) =>
        /\ salida[1] = C14_Activas(dada.x)
        /\ entrada.x = dada.x

\* a list of an inactive record between two active ones gave the two
C14_Witness ==
    /\ entrada.f = "filtrar_activas"
    /\ Len(dada.x) = 3
    /\ dada.x[1].activa /\ ~dada.x[2].activa /\ dada.x[3].activa
    /\ salida = <<(<<dada.x[1], dada.x[3]>>)>>

\* every query with an entry in the memo cache keeps its entry and its value
\* in the step
C16_Kept ==
    \A q \in DOMAIN geocode_cache :
        q \in DOMAIN geocode_cache' /\ geocode_cache'[q] = geocode_cache[q]

\* C16 (as stated): once a query has an entry in the memo cache, every later
\* state holds an entry for it with the same value, under any sequence of the
\* operations of the geocoding module.
C16_Original == [][C16_Kept]_vars

\* C16 (amended): geocodificar_nominatim and geocodificar_baliza, called one
\* at a time, never remove or change an entry of the memo cache; the entries
\* go only when limpiar_cache empties the cache.
C16_NeverEvicted == [][C16_Kept \/ (LimpiarCache /\ geocode_cache' = EmptyCache)]_vars

\* a no-match entry went with a limpiar_cache, and the cache holds the
\* coordinates of a request sent since
C16_Witness ==
    /\ \E i \in 1..Len(requests) :
        /\ requests[i].cleared
        /\ requests[i].outcome = "nomatch"
        /\ requests[i].query \notin DOMAIN geocode_cache
    /\ \E j \in 1..Len(requests) :
        /\ ~requests[j].cleared
        /\ requests[j].outcome = "match"
        /\ requests[j].query \in DOMAIN geocode_cache
        /\ geocode_cache[requests[j].query] # None

\* the label fuente starts with at each level
C17_Prefix(l) ==
    CASE l = 5 -> "Nominatim (población): "
      [] l = 7 -> "Nominatim (provincia): "
      [] OTHER -> "Nominatim: "

\* C17 (as stated): the fuente of a returned result is exactly the query string
\* that succeeded.
C17_Original ==
    \A t \in Threads :
        (pc[t] = "done" /\ result[t] # None) => result[t][1].fuente = Last(attempts[t]).query

\* C17 (amended): the fuente of a returned result is a label ('Nominatim: ',
\* at level 5 'Nominatim (población): ', at level 7 'Nominatim (provincia): ')
\* followed by exactly the query string that succeeded, the one looked up in
\* the memo cache or sent to the service at the matching level.
C17_Fuente ==
    \A t \in Threads :
        (pc[t] = "done" /\ result[t] # None) =>
            /\ result[t][1].fuente =
                <<C17_Prefix(Last(attempts[t]).level)>> \o Last(attempts[t]).query
            /\ Truthy(Last(attempts[t]).coords)
            /\ Last(attempts[t]).how = "request" =>
                \E i \in 1..Len(requests) :
                    /\ requests[i].by = t
                    /\ requests[i].query = Last(attempts[t]).query
                    /\ requests[i].outcome = "match"
            /\ Last(attempts[t]).how = "cache" =>
                /\ Last(attempts[t]).query \in DOMAIN geocode_cache
                /\ geocode_cache[Last(attempts[t]).query] = Last(attempts[t]).coords

\* a call returned the coordinates the cache held for its locality query
C17_Witness ==
    \E t \in Threads :
        /\ pc[t] = "done"
        /\ result[t] # None
        /\ Last(attempts[t]).level = 5
        /\ Last(attempts[t]).how = "cache"
        /\ Head(result[t][1].fuente) = "Nominatim (población): "

\* C18: the marker normalization turns every decimal comma into a dot and is
\* idempotent: on a marker without commas it returns the marker, and applied
\* twice it gives what it gives applied once.
C18_Idempotent ==
    (entrada.f = "normalizar_pk" /\ salida # <<>>) =>
        /\ Len(salida[1]) = Len(dada.x)
        /\ \A i \in 1..Len(dada.x) :
            salida[1][i] = (IF dada.x[i] = "," THEN "." ELSE dada.x[i])
        /\ (\A i \in 1..Len(dada.x) : dada.x[i] # ",") => salida[1] = dada.x
        /\ Len(salida) = 2 => salida[2] = salida[1]

\* the marker ",2." normalized to ".2." and normalized again
C18_Witness ==
    /\ entrada.f = "normalizar_pk"
    /\ dada.x = <<",", "2", ".">>
    /\ salida = <<(<<".", "2", ".">>), (<<".", "2", ".">>)>>

\* a record as extraction left it: no coordinates, no precision label
SinUbicacion(rec) == [rec EXCEPT !.latitud = None, !.longitud = None, !.precision_geo = None]

C15_Triple(rec) ==
    \/ rec.latitud = None /\ rec.longitud = None /\ rec.precision_geo = None
    \/ rec.latitud # None /\ rec.longitud # None /\ rec.precision_geo # None

C15_Lista(lista, extraida) ==
    /\ Len(lista) = Len(extraida)
    /\ \A i \in 1..Len(lista) : C15_Triple(lista[i]) /\ SinUbicacion(lista[i]) = extraida[i]

\* C15: in every reachable state of the server and of the map script, each
\* record of the cached list and of the script's list has latitud, longitud and
\* precision_geo all None or all set, and its other fields are as extraction
\* left them.
C15_Records == C15_Lista(cache_data, extraido.cache) /\ C15_Lista(locales, extraido.locales)

\* a handler has attached coordinates to a cached record, and the script to one of its own
C15_Witness ==
    /\ app_pc = "idle"
    /\ \E i \in 1..Len(cache_data) : cache_data[i].latitud # None
    /\ \E i \in 1..Len(locales) : locales[i].latitud # None

\* a step of a handler that calls get_incidencias_con_cache
ConCache == GetBalizas \/ GetBalizaUbicacion \/ MapaStart

\* C19: when get_incidencias_con_cache must refresh and the upstream fetch
\* fails, it returns the cached result if an earlier fetch has succeeded,
\* whatever that result was, and raises only if no fetch has ever succeeded.
C19_Original ==
    [][ConCache /\ ~Fresh /\ devuelto'.fetch = "failed"
       => IF exitos THEN ~devuelto'.raised /\ devuelto'.data = cache_data ELSE devuelto'.raised]_vars

\* ticks since the last fetch of get_incidencias_con_cache that succeeded
C20_Edad == clock - extraido.cuando[1]

C20_Vencido ==
    /\ exitos
    /\ devuelto.fetch = "failed"
    /\ extraido.cuando # None
    /\ C20_Edad = Ttl * TicksPerSecond

\* the request ended in a transport error: requests.get or raise_for_status raised
TransportError(i) == requests[i].outcome = "error" /\ requests[i].reply = <<>>

\* the value of _last_request_time the last request found
C21_Before == IF Len(requests) >= 2 THEN issues.prev ELSE InitialLastRequestTime

\* a caller is about to look up a query whose last request ended in a transport
\* error: the query is not in the cache, so the lookup goes to the service
C21_Again ==
    \A t \in Threads :
        (/\ pc[t] = "lookup"
         /\ \E i \in 1..Len(requests) :
                /\ requests[i].query = QueryOf(t)
                /\ TransportError(i)
                /\ \A j \in (i + 1)..Len(requests) : requests[j].query # QueryOf(t))
        => ~InCache(QueryOf(t))

\* C21: with one caller in the resolver at a time, the step in which a request
\* ends in a transport error leaves the memo cache as it was, without an entry
\* for the query, and leaves the rate-limit timestamp at the time the request
\* was sent, later than the value the request found; the next lookup of the
\* same query string finds no entry and contacts the service again.
C21_TransportError ==
    /\ [](serialized => C21_Again)
    /\ [][serialized =>
            \A i \in 1..Len(requests) :
                (requests[i].outcome = "pending" /\ TransportError(i)')
                => /\ geocode_cache' = geocode_cache
                   /\ requests[i].query \notin DOMAIN geocode_cache'
                   /\ last_request_time' = issues.last
                   /\ last_request_time' > C21_Before]_vars

\* a query whose request ended in a transport error in one resolver call was
\* sent again by the next call
C21_Witness ==
    \E i, j \in 1..Len(requests) :
        /\ i < j
        /\ TransportError(i)
        /\ requests[j].query = requests[i].query
        /\ requests[j].call # requests[i].call
        /\ ~requests[i].cleared

\* the records of a list as extraction left them
SinUbicaciones(lista) == [i \in 1..Len(lista) |-> SinUbicacion(lista[i])]

\* C22: a call of get_incidencias_con_cache whose refresh fails leaves
\* cache['last_update'] and the cached record list as they were (the handler
\* that called it may go on to attach coordinates to a record of the list), and
\* the call of get_incidencias_con_cache that follows a failed refresh attempts
\* an upstream fetch again.
C22_FailedRefresh ==
    [][ConCache =>
        /\ devuelto'.fetch = "failed" =>
            /\ last_update' = last_update
            /\ extraido' = extraido
            /\ SinUbicaciones(cache_data') = SinUbicaciones(cache_data)
            /\ (GetBalizas \/ MapaStart) => cache_data' = cache_data
        /\ devuelto.fetch = "failed" => devuelto'.fetch \in {"ok", "failed"}]_vars

\* a fetch succeeded with records, the TTL ran out, and the third call of the
\* run failed to refresh: it was answered with the records of the fetch that
\* succeeded, and last_update is still the time of that fetch
C22_Witness ==
    /\ peticiones = 3
    /\ exitos
    /\ devuelto = [raised |-> FALSE, fetch |-> "failed", data |-> cache_data]
    /\ cache_data # <<>>
    /\ last_update = extraido.cuando
    /\ clock - last_update[1] >= Ttl * TicksPerSecond
    /\ SinUbicaciones(cache_data) = extraido.cache

====
